---------------------------- MODULE Spec2Model ----------------------------
(***************************************************************************)
(* A model of backend/main.py, the Ollama spell-check API.                 *)
(*                                                                         *)
(* Text is a sequence of one-character strings.  A model reply is a        *)
(* sequence of tokens: the brackets, the comma, a whitespace token, a      *)
(* prose token and the JSON values of the reply (a number, an object with  *)
(* its misspelled_word and suggestion).  JSON values are tagged tuples:    *)
(* <<"none">>, <<"num">>, <<"str", chars>>, <<"list", items>>,             *)
(* <<"obj", misspelled_word, suggestion>>.                                 *)
(*                                                                         *)
(* sha256 is taken to be injective: a cache key is the string that         *)
(* _hash_key hashes.  time.time() is taken to be non-decreasing.           *)
(***************************************************************************)
EXTENDS Integers, Sequences, FiniteSets, TLC

(***************************************************************************)
(* Program constants.                                                      *)
(***************************************************************************)
CACHE_TTL == 60
DEFAULT_MAX_CHUNK_CHARS == 1600
MODEL_DEFAULT == <<"l", "l", "a", "m", "a", "3">>
AUTO_PREFIX == <<"A", "U", "T", "O", "|">>
KEY_SEP == <<"|", "|">>

(***************************************************************************)
(* Bounds of the model.                                                    *)
(***************************************************************************)
MaxTextLen == 3
MaxChars == 2
MaxItems == 1
MaxNow == 122
MaxArrivals == 3
MaxOps == 4
NReq == 2

Reqs == 1..NReq

(***************************************************************************)
(* Strings.                                                                *)
(***************************************************************************)
Lower(c) == IF c = "A" THEN "a" ELSE c

LowerStr(s) == [i \in 1..Len(s) |-> Lower(s[i])]

\* Python's \w on the characters of the model: letters are word characters,
\* the space and the bar are not.
IsWordChar(c) == c \notin {" ", "|"}

RECURSIVE SplitAcc(_, _, _, _)
SplitAcc(s, i, cur, acc) ==
    IF i > Len(s) THEN Append(acc, cur)
    ELSE IF s[i] = " " THEN SplitAcc(s, i + 1, <<>>, Append(acc, cur))
    ELSE SplitAcc(s, i + 1, Append(cur, s[i]), acc)

\* s.split(" ")
Split(s) == SplitAcc(s, 1, <<>>, <<>>)

RECURSIVE StringsUpTo(_, _)
StringsUpTo(alphabet, n) ==
    IF n = 0 THEN {<<>>}
    ELSE LET shorter == StringsUpTo(alphabet, n - 1)
         IN  shorter \cup {Append(s, c) : s \in shorter, c \in alphabet}

(***************************************************************************)
(* chunk_text                                                              *)
(***************************************************************************)
RECURSIVE Pack(_, _, _, _, _)
Pack(words, i, current_text, parts, max_chars) ==
    IF i > Len(words)
    THEN IF current_text # <<>> THEN Append(parts, current_text) ELSE parts
    ELSE LET word == words[i]
             flush == Len(current_text) + Len(word) + 1 > max_chars
             parts1 == IF flush THEN Append(parts, current_text) ELSE parts
             cur1 == IF flush THEN <<" ">> ELSE current_text
         IN  Pack(words, i + 1, cur1 \o word \o <<" ">>, parts1, max_chars)

chunk_text(s, max_chars) ==
    IF Len(s) <= max_chars THEN <<s>>
    ELSE Pack(Split(s), 1, <<>>, <<>>, max_chars)

(***************************************************************************)
(* The occurrence scan of spellcheck: re.finditer(rf"\b{re.escape(w)}\b",  *)
(* ch, flags=re.IGNORECASE), positions shifted by offset.                  *)
(***************************************************************************)
IsW(ch, q) == q \in 1..Len(ch) /\ IsWordChar(ch[q])

\* \b at position p (between character p and character p + 1 of ch)
Boundary(ch, p) == IsW(ch, p) # IsW(ch, p + 1)

MatchAt(ch, w, p) ==
    /\ p + Len(w) <= Len(ch)
    /\ \A j \in 1..Len(w) : Lower(ch[p + j]) = Lower(w[j])
    /\ Boundary(ch, p)
    /\ Boundary(ch, p + Len(w))

RECURSIVE Scan(_, _, _, _, _)
Scan(ch, w, p, offset, acc) ==
    IF p > Len(ch) THEN acc
    ELSE IF MatchAt(ch, w, p)
         THEN Scan(ch, w, IF Len(w) = 0 THEN p + 1 ELSE p + Len(w), offset,
                   Append(acc, <<offset + p, offset + p + Len(w)>>))
         ELSE Scan(ch, w, p + 1, offset, acc)

Locate(ch, w, offset) == Scan(ch, w, 0, offset, <<>>)

(***************************************************************************)
(* JSON values and the tokens of a reply.                                  *)
(***************************************************************************)
None == <<"none">>
JNum == <<"num">>
JStr(s) == <<"str", s>>
JList(xs) == <<"list", xs>>
JObj(mw, sg) == <<"obj", mw, sg>>

TLB == <<"[">>
TRB == <<"]">>
TCOMMA == <<",">>
TSPACE == <<" ">>
TPROSE == <<"p">>

IsAtom(tok) == tok[1] \in {"num", "obj", "str", "none"}

ParseFail == [ok |-> FALSE, val |-> None, next |-> 0]

\* json.loads on a sequence of tokens: a value is an atom or an array of
\* comma-separated values.
RECURSIVE ParseValue(_, _)
RECURSIVE ParseElems(_, _, _)
ParseValue(t, i) ==
    IF i > Len(t) THEN ParseFail
    ELSE IF IsAtom(t[i]) THEN [ok |-> TRUE, val |-> t[i], next |-> i + 1]
    ELSE IF t[i] = TLB
         THEN IF i + 1 <= Len(t) /\ t[i + 1] = TRB
              THEN [ok |-> TRUE, val |-> JList(<<>>), next |-> i + 2]
              ELSE ParseElems(t, i + 1, <<>>)
    ELSE ParseFail

ParseElems(t, i, acc) ==
    LET v == ParseValue(t, i)
    IN  IF ~v.ok \/ v.next > Len(t) THEN ParseFail
        ELSE IF t[v.next] = TCOMMA
             THEN ParseElems(t, v.next + 1, Append(acc, v.val))
        ELSE IF t[v.next] = TRB
             THEN [ok |-> TRUE, val |-> JList(Append(acc, v.val)),
                   next |-> v.next + 1]
        ELSE ParseFail

\* whitespace between the tokens of a JSON text is not significant
NotSpace(tok) == tok # TSPACE

JsonLoads(text) ==
    LET t == SelectSeq(text, NotSpace)
        v == ParseValue(t, 1)
    IN  IF v.ok /\ v.next = Len(t) + 1 THEN v ELSE ParseFail

\* text.find(tok) and text.rfind(tok): 0-based, -1 when absent
Find(text, tok) ==
    LET hits == {i \in 1..Len(text) : text[i] = tok}
    IN  IF hits = {} THEN -1
        ELSE (CHOOSE i \in hits : \A j \in hits : i <= j) - 1

RFind(text, tok) ==
    LET hits == {i \in 1..Len(text) : text[i] = tok}
    IN  IF hits = {} THEN -1
        ELSE (CHOOSE i \in hits : \A j \in hits : i >= j) - 1

\* _extract_json_list: the items of the array between the first "[" and the
\* last "]", or no items.
extract_json_list(text) ==
    LET start == Find(text, TLB)
        end == RFind(text, TRB)
    IN  IF start = -1 \/ end = -1 \/ end <= start THEN <<>>
        ELSE LET v == JsonLoads(SubSeq(text, start + 1, end + 1))
             IN  IF v.ok THEN v.val[2] ELSE <<>>


(***************************************************************************)
(* _ollama_generate.  A call ends in a transport error (a timeout, a       *)
(* refused connection) or in a response with a status and the lines of its *)
(* body.  A line is empty, is not a JSON object (<<"bad">>), or is a JSON   *)
(* object whose "response" is absent, a piece of text or not a string.     *)
(***************************************************************************)
FragEmpty == <<"empty">>
FragBad == <<"bad">>
FragAbsent == <<"json", <<"absent">>>>
FragNonStr == <<"json", <<"nonstr">>>>
FragText(toks) == <<"json", <<"text", toks>>>>

Outcome(err, status, lines) == [err |-> err, status |-> status, lines |-> lines]

\* a raise_for_status that lets every status pass
RaisesNever(status) == FALSE

\* r.raise_for_status() of the requests library raises for the 4xx and 5xx
\* statuses only.
RaisesForStatus(status) == status \in 400..599

RECURSIVE JoinChunks(_, _, _)
JoinChunks(lines, i, acc) ==
    IF i > Len(lines) THEN [raised |-> FALSE, text |-> acc]
    ELSE LET line == lines[i]
         IN  IF line[1] \in {"empty", "bad"} THEN JoinChunks(lines, i + 1, acc)
             ELSE IF line[2][1] = "absent" THEN JoinChunks(lines, i + 1, acc)
             ELSE IF line[2][1] = "text"
                  THEN JoinChunks(lines, i + 1, acc \o line[2][2])
             \* "".join(chunks) raises on a chunk that is no string
             ELSE [raised |-> TRUE, text |-> <<>>]

\* kind: "upstream" when requests raised, "internal" when the join raised
ollama_generate(o) ==
    IF o.err # "none" \/ RaisesForStatus(o.status)
    THEN [raised |-> TRUE, kind |-> "upstream", text |-> <<>>]
    ELSE LET j == JoinChunks(o.lines, 1, <<>>)
         IN  [raised |-> j.raised,
              kind |-> IF j.raised THEN "internal" ELSE "none",
              text |-> j.text]

RECURSIVE StripLeft(_)
StripLeft(t) == IF t # <<>> /\ Head(t) = TSPACE THEN StripLeft(Tail(t)) ELSE t

RECURSIVE StripRight(_)
StripRight(t) ==
    IF t # <<>> /\ t[Len(t)] = TSPACE
    THEN StripRight(SubSeq(t, 1, Len(t) - 1))
    ELSE t

\* str.strip()
Strip(t) == StripRight(StripLeft(t))

(***************************************************************************)
(* The merge of spellcheck, lines 174-199.  corrections_global is the      *)
(* sequence of the dict's entries in insertion order.                      *)
(***************************************************************************)
Iterable(v) == v[1] \in {"str", "list"}

Hashable(v) == v[1] \in {"none", "num", "str"}

\* what iterating a value yields: the characters of a string, the items of
\* a list
IterOf(v) ==
    IF v[1] = "str" THEN [i \in 1..Len(v[2]) |-> JStr(<<v[2][i]>>)]
    ELSE v[2]

Range(f) == {f[i] : i \in DOMAIN f}

MergeErr == [err |-> TRUE, val |-> None]

RECURSIVE AppendNew(_, _, _, _)
AppendNew(it, i, cur, seen) ==
    IF i > Len(it) THEN [err |-> FALSE, val |-> cur]
    ELSE LET s == it[i]
         IN  IF ~Hashable(s) THEN MergeErr
             ELSE IF s \in seen THEN AppendNew(it, i + 1, cur, seen)
             \* a str has no append
             ELSE IF cur[1] # "list" THEN MergeErr
             ELSE AppendNew(it, i + 1, JList(Append(cur[2], s)),
                            seen \cup {s})

\* lines 195-199: seen = set(suggestions); for s in sugg: append the unseen
UnionSuggestions(existing, sugg) ==
    IF ~Iterable(existing) THEN MergeErr
    ELSE IF \E x \in Range(IterOf(existing)) : ~Hashable(x) THEN MergeErr
    ELSE IF ~Iterable(sugg) THEN MergeErr
    ELSE AppendNew(IterOf(sugg), 1, existing, Range(IterOf(existing)))

\* a key that keeps the casing of the word
MergeKeyCased(w) == w

\* line 188
MergeKey(w) == LowerStr(w)

KeyIndex(cg, key) ==
    LET hits == {i \in 1..Len(cg) : cg[i].key = key}
    IN  IF hits = {} THEN 0 ELSE CHOOSE i \in hits : TRUE

\* one turn of the loop over arr
MergeItem(cg, item, ch, offset) ==
    \* item.get on what is no object raises
    IF item[1] # "obj" THEN [err |-> TRUE, cg |-> cg]
    ELSE LET w == item[2]
             sugg == item[3]
         IN  \* re.escape(w), w.lower() raise on what is no string
             IF w[1] # "str" THEN [err |-> TRUE, cg |-> cg]
             ELSE LET positions == Locate(ch, w[2], offset)
                      key == MergeKey(w[2])
                      at == KeyIndex(cg, key)
                  IN  IF at = 0
                      THEN [err |-> FALSE,
                            cg |-> Append(cg, [key |-> key, word |-> w[2],
                                               suggestions |-> sugg,
                                               positions |-> positions])]
                      ELSE LET u == UnionSuggestions(cg[at].suggestions, sugg)
                           IN  IF u.err THEN [err |-> TRUE, cg |-> cg]
                               ELSE [err |-> FALSE,
                                     cg |-> [cg EXCEPT
                                       ![at].positions = @ \o positions,
                                       ![at].suggestions = u.val]]

RECURSIVE MergeArr(_, _, _, _, _)
MergeArr(cg, arr, i, ch, offset) ==
    IF i > Len(arr) THEN [err |-> FALSE, cg |-> cg]
    ELSE LET m == MergeItem(cg, arr[i], ch, offset)
         IN  IF m.err THEN m ELSE MergeArr(m.cg, arr, i + 1, ch, offset)

\* list(corrections_global.values())
ResultOf(cg) ==
    JList([i \in 1..Len(cg) |-> [word |-> cg[i].word,
                                 suggestions |-> cg[i].suggestions,
                                 positions |-> cg[i].positions]])

(***************************************************************************)
(* The cache.                                                              *)
(***************************************************************************)
\* _hash_key, before the hash
hash_key(model, text) == model \o KEY_SEP \o text

\* a staleness test that expires an entry one second early
StaleAtTTL(ts, t) == (t - ts) >= CACHE_TTL

\* line 45
Stale(ts, t) == (t - ts) > CACHE_TTL

CachePut(cache, key, row) ==
    [k \in DOMAIN cache \cup {key} |-> IF k = key THEN row ELSE cache[k]]

\* CACHE.pop(key, None)
CachePop(cache, key) == [k \in DOMAIN cache \ {key} |-> cache[k]]


\* _cache_get as one call: what it returns and the cache it leaves
cache_get(cache, key, t) ==
    IF key \notin DOMAIN cache THEN [ret |-> None, cache |-> cache]
    ELSE IF Stale(cache[key].ts, t)
         THEN [ret |-> None, cache |-> CachePop(cache, key)]
         ELSE [ret |-> cache[key].val, cache |-> cache]

\* _cache_set as one call
cache_set(cache, key, t, value) ==
    CachePut(cache, key, [ts |-> t, val |-> value])

(***************************************************************************)
(* State.  CACHE and the clock are shared; every other variable is local   *)
(* to the request a worker thread r is serving.                            *)
(***************************************************************************)
VARIABLES
    CACHE,                \* key -> [ts, val]
    now,                  \* time.time()
    pc,                   \* where request r is
    req,                  \* the body of request r
    row,                  \* _cache_get's row
    chunks,               \* spellcheck's chunks
    idx,                  \* the chunk the loop is at (1-based)
    offset,               \* spellcheck's offset
    corrections_global,   \* spellcheck's dict, in insertion order
    result,               \* what the request computed
    resp,                 \* what the request answered
    arrivals,             \* history: requests received
    storedBy,             \* history: key -> the request that stored it
    hist,                 \* history of request r
    lastOp,               \* history: the last direct cache call
    lastSet               \* history: key -> the last _cache_set on it

locals == <<row, chunks, idx, offset, corrections_global, result>>
cacheHist == <<lastOp, lastSet>>
vars == <<CACHE, now, pc, req, row, chunks, idx, offset, corrections_global,
          result, resp, arrivals, storedBy, hist, lastOp, lastSet>>

NoReq == [mode |-> "none", model |-> <<>>, text |-> <<>>, max_chunk_chars |-> 0]
NoRow == [ts |-> 0, val |-> None]
NoResp == [kind |-> "none", val |-> None]
NoFail == [at |-> 0, err |-> "none", status |-> 0]
NoHist == [served |-> "none", calls |-> 0, failed |-> NoFail,
           hardFailed |-> NoFail,
           errKind |-> "none", log |-> <<>>, wrote |-> FALSE, hitBy |-> NoReq]
NoOp == [n |-> 0, op |-> "none", key |-> <<>>, at |-> 0, ret |-> None,
         others |-> <<>>]

\* lines 133-134, 211-212: req.model or MODEL_DEFAULT
ModelOf(rq) == IF rq.model = <<>> THEN MODEL_DEFAULT ELSE rq.model

\* the text each handler hands to the cache: lines 135 and 213
CacheText(rq) ==
    IF rq.mode = "correct" THEN AUTO_PREFIX \o rq.text ELSE rq.text

KeyOf(rq) == hash_key(ModelOf(rq), CacheText(rq))

RespKind(rq) == IF rq.mode = "correct" THEN "text" ELSE "corrections"

Init ==
    /\ CACHE = <<>>
    /\ now = 0
    /\ pc = [r \in Reqs |-> "idle"]
    /\ req = [r \in Reqs |-> NoReq]
    /\ row = [r \in Reqs |-> NoRow]
    /\ chunks = [r \in Reqs |-> <<>>]
    /\ idx = [r \in Reqs |-> 0]
    /\ offset = [r \in Reqs |-> 0]
    /\ corrections_global = [r \in Reqs |-> <<>>]
    /\ result = [r \in Reqs |-> None]
    /\ resp = [r \in Reqs |-> NoResp]
    /\ arrivals = 0
    /\ storedBy = <<>>
    /\ hist = [r \in Reqs |-> NoHist]
    /\ lastOp = NoOp
    /\ lastSet = <<>>

(***************************************************************************)
(* A request arrives at a free worker.                                     *)
(***************************************************************************)
Arrive(r, requests, limit) ==
    /\ pc[r] \in {"idle", "done", "error"}
    /\ arrivals < limit
    /\ \E rq \in requests : req' = [req EXCEPT ![r] = rq]
    /\ arrivals' = arrivals + 1
    /\ pc' = [pc EXCEPT ![r] = "lookup"]
    /\ row' = [row EXCEPT ![r] = NoRow]
    /\ chunks' = [chunks EXCEPT ![r] = <<>>]
    /\ idx' = [idx EXCEPT ![r] = 0]
    /\ offset' = [offset EXCEPT ![r] = 0]
    /\ corrections_global' = [corrections_global EXCEPT ![r] = <<>>]
    /\ result' = [result EXCEPT ![r] = None]
    /\ resp' = [resp EXCEPT ![r] = NoResp]
    /\ hist' = [hist EXCEPT ![r] = NoHist]
    /\ UNCHANGED <<CACHE, now, storedBy, cacheHist>>

(***************************************************************************)
(* _cache_get, one step per access to the shared state: the lookup of      *)
(* line 41, the clock read of line 45, the pop of line 46.                 *)
(***************************************************************************)
\* lines 139-143 (spellcheck) after a miss: the chunks and the loop's start
StartPipeline(r) ==
    /\ chunks' = [chunks EXCEPT ![r] =
                    IF req[r].mode = "spellcheck"
                    THEN chunk_text(req[r].text, req[r].max_chunk_chars)
                    ELSE <<>>]
    /\ idx' = [idx EXCEPT ![r] = 1]
    /\ offset' = [offset EXCEPT ![r] = 0]
    /\ corrections_global' = [corrections_global EXCEPT ![r] = <<>>]
    /\ pc' = [pc EXCEPT ![r] = "call"]

LookupMiss(r) ==
    /\ pc[r] = "lookup"
    /\ KeyOf(req[r]) \notin DOMAIN CACHE
    /\ StartPipeline(r)
    /\ UNCHANGED <<CACHE, now, req, row, result, resp, arrivals, storedBy,
                   hist, cacheHist>>

LookupHit(r) ==
    /\ pc[r] = "lookup"
    /\ KeyOf(req[r]) \in DOMAIN CACHE
    /\ row' = [row EXCEPT ![r] = CACHE[KeyOf(req[r])]]
    /\ hist' = [hist EXCEPT ![r].hitBy = storedBy[KeyOf(req[r])]]
    /\ pc' = [pc EXCEPT ![r] = "check"]
    /\ UNCHANGED <<CACHE, now, req, chunks, idx, offset, corrections_global,
                   result, resp, arrivals, storedBy, cacheHist>>

\* the row is fresh: _cache_get returns its value and the handler answers
\* with it (a stored value is a list or a string, never None)
CheckFresh(r) ==
    /\ pc[r] = "check"
    /\ ~Stale(row[r].ts, now)
    /\ row[r].val # None
    /\ resp' = [resp EXCEPT ![r] = [kind |-> RespKind(req[r]),
                                    val |-> row[r].val]]
    /\ hist' = [hist EXCEPT ![r].served = "cache"]
    /\ pc' = [pc EXCEPT ![r] = "done"]
    /\ UNCHANGED <<CACHE, now, req, locals, arrivals, storedBy, cacheHist>>

CheckStale(r) ==
    /\ pc[r] = "check"
    /\ Stale(row[r].ts, now)
    /\ pc' = [pc EXCEPT ![r] = "pop"]
    /\ UNCHANGED <<CACHE, now, req, locals, resp, arrivals, storedBy, hist,
                   cacheHist>>

Pop(r) ==
    /\ pc[r] = "pop"
    /\ CACHE' = CachePop(CACHE, KeyOf(req[r]))
    /\ StartPipeline(r)
    /\ UNCHANGED <<now, req, row, result, resp, arrivals, storedBy, hist,
                   cacheHist>>


(***************************************************************************)
(* The model call and what follows it, up to the next access to the shared *)
(* state.                                                                  *)
(***************************************************************************)
\* history: a call that timed out, could not connect or ended in a status
\* that is not 2xx; one that did so with a 4xx or 5xx status
UpstreamFailure(o) == o.err # "none" \/ o.status \notin 200..299

HardFailure(o) == o.err # "none" \/ o.status \in 400..599

FirstFailure(was, r, o, failure) ==
    IF was.at = 0 /\ failure
    THEN [at |-> idx[r], err |-> o.err, status |-> o.status]
    ELSE was

CallHist(r, o) ==
    [hist[r] EXCEPT !.calls = @ + 1,
                    !.failed = FirstFailure(@, r, o, UpstreamFailure(o)),
                    !.hardFailed = FirstFailure(@, r, o, HardFailure(o))]

\* history: what the loop over arr saw, item by item
Sightings(arr, ch, off) ==
    [i \in 1..Len(arr) |-> [w |-> arr[i][2][2],
                            positions |-> Locate(ch, arr[i][2][2], off)]]

Fail(r, o, kind) ==
    /\ pc' = [pc EXCEPT ![r] = "error"]
    /\ resp' = [resp EXCEPT ![r] = [kind |-> "error", val |-> None]]
    /\ hist' = [hist EXCEPT ![r] = [CallHist(r, o) EXCEPT !.errKind = kind]]
    /\ UNCHANGED <<CACHE, now, req, locals, arrivals, storedBy, cacheHist>>

\* what lines 170-171 and 224 make of each outcome of the model call
Replies(outcomes) ==
    {[o |-> o, gen |-> ollama_generate(o),
      arr |-> extract_json_list(ollama_generate(o).text)] : o \in outcomes}

\* line 170 raises: the exception leaves spellcheck
SpellCallRaises(r, replies) ==
    /\ pc[r] = "call"
    /\ req[r].mode = "spellcheck"
    /\ \E c \in replies : c.gen.raised /\ Fail(r, c.o, c.gen.kind)

\* lines 171-199 raise on the reply
SpellCallMalformed(r, replies) ==
    /\ pc[r] = "call"
    /\ req[r].mode = "spellcheck"
    /\ \E c \in replies :
         LET ch == chunks[r][idx[r]]
         IN  /\ ~c.gen.raised
             /\ MergeArr(corrections_global[r], c.arr, 1, ch, offset[r]).err
             /\ Fail(r, c.o, "internal")

\* one turn of the loop of line 144; after the last chunk, line 202
SpellCallOk(r, replies) ==
    /\ pc[r] = "call"
    /\ req[r].mode = "spellcheck"
    /\ \E c \in replies :
         LET ch == chunks[r][idx[r]]
             m == MergeArr(corrections_global[r], c.arr, 1, ch, offset[r])
             last == idx[r] = Len(chunks[r])
         IN  /\ ~c.gen.raised
             /\ ~m.err
             /\ corrections_global' = [corrections_global EXCEPT ![r] = m.cg]
             /\ offset' = [offset EXCEPT ![r] = @ + Len(ch)]
             /\ idx' = [idx EXCEPT ![r] = @ + 1]
             /\ result' = [result EXCEPT ![r] =
                             IF last THEN ResultOf(m.cg) ELSE @]
             /\ pc' = [pc EXCEPT ![r] = IF last THEN "set" ELSE "call"]
             /\ hist' = [hist EXCEPT ![r] =
                           [CallHist(r, c.o) EXCEPT
                              !.log = @ \o Sightings(c.arr, ch, offset[r])]]
    /\ UNCHANGED <<CACHE, now, req, row, chunks, resp, arrivals, storedBy,
                   cacheHist>>

\* line 224 raises
CorrectCallRaises(r, replies) ==
    /\ pc[r] = "call"
    /\ req[r].mode = "correct"
    /\ \E c \in replies : c.gen.raised /\ Fail(r, c.o, c.gen.kind)

\* line 224
CorrectCallOk(r, replies) ==
    /\ pc[r] = "call"
    /\ req[r].mode = "correct"
    /\ \E c \in replies :
         /\ ~c.gen.raised
         /\ result' = [result EXCEPT ![r] = JStr(Strip(c.gen.text))]
         /\ hist' = [hist EXCEPT ![r] = CallHist(r, c.o)]
    /\ pc' = [pc EXCEPT ![r] = "set"]
    /\ UNCHANGED <<CACHE, now, req, row, chunks, idx, offset,
                   corrections_global, resp, arrivals, storedBy, cacheHist>>

\* lines 203-204 and 225-226: _cache_set and the answer
CacheSet(r) ==
    /\ pc[r] = "set"
    /\ CACHE' = cache_set(CACHE, KeyOf(req[r]), now, result[r])
    /\ storedBy' = CachePut(storedBy, KeyOf(req[r]), req[r])
    /\ resp' = [resp EXCEPT ![r] = [kind |-> RespKind(req[r]),
                                    val |-> result[r]]]
    /\ hist' = [hist EXCEPT ![r].served = "computed", ![r].wrote = TRUE]
    /\ pc' = [pc EXCEPT ![r] = "done"]
    /\ UNCHANGED <<now, req, locals, arrivals, cacheHist>>

\* time passes
Tick(steps) ==
    /\ \E d \in steps : now + d <= MaxNow /\ now' = now + d
    /\ UNCHANGED <<CACHE, pc, req, locals, resp, arrivals, storedBy, hist,
                   cacheHist>>


(***************************************************************************)
(* The inputs.                                                             *)
(***************************************************************************)
TextChars == {"a", "A", " "}

SpellTexts == StringsUpTo(TextChars, MaxTextLen)

SpellRequests ==
    {[mode |-> "spellcheck", model |-> <<"m">>, text |-> t,
      max_chunk_chars |-> n] : t \in SpellTexts, n \in 1..MaxChars}

\* the items of a reply: a scalar suggestion, lists of suggestions (one with
\* a repeated value), an object without the two fields, a number
ItemA == JObj(JStr(<<"a">>), JStr(<<"b">>))
ItemUpperA == JObj(JStr(<<"A">>), JList(<<JStr(<<"b">>), JStr(<<"a">>)>>))
ItemB == JObj(JStr(<<"b">>), JList(<<JStr(<<"a">>), JStr(<<"a">>)>>))
ItemBare == JObj(None, None)

Items == {ItemA, ItemUpperA, ItemB, ItemBare, JNum}

ItemSeqs == StringsUpTo(Items, MaxItems)

RECURSIVE JoinItems(_)
JoinItems(is) ==
    IF is = <<>> THEN <<>>
    ELSE IF Len(is) = 1 THEN <<is[1]>>
    ELSE <<is[1], TCOMMA>> \o JoinItems(Tail(is))

ArrayText(is) == <<TLB>> \o JoinItems(is) \o <<TRB>>

OkReply(lines) == Outcome("none", 200, lines)

\* replies that are one well-formed array in one line
ArrayOutcomes == {OkReply(<<FragText(ArrayText(is))>>) : is \in ItemSeqs}

\* replies in several lines, with prose around the array, and malformed ones
OddOutcomes ==
    { OkReply(<<>>),
      OkReply(<<FragText(<<TPROSE>>)>>),
      OkReply(<<FragText(<<TPROSE, TLB, ItemB>>), FragBad, FragEmpty,
                FragAbsent, FragText(<<TSPACE, TCOMMA, ItemUpperA, TRB,
                                       TPROSE>>)>>),
      OkReply(<<FragText(<<TLB, ItemA, TRB>>), FragNonStr>>),
      OkReply(<<FragText(<<TRB, TLB>>)>>),
      OkReply(<<FragText(<<TLB, ItemA>>)>>),
      OkReply(<<FragText(<<TLB, ItemA, ItemA, TRB>>)>>),
      OkReply(<<FragText(<<TLB, TLB, TRB, TRB>>)>>),
      OkReply(<<FragText(<<TLB, ItemA, TRB, TPROSE, TLB, ItemB, TRB>>)>>) }

FailedOutcomes ==
    { Outcome("timeout", 0, <<>>),
      Outcome("connect", 0, <<>>),
      Outcome("none", 500, <<>>),
      Outcome("none", 404, <<>>),
      Outcome("none", 304, <<>>) }

SpellOutcomes == ArrayOutcomes \cup OddOutcomes \cup FailedOutcomes

SpellReplies == Replies(SpellOutcomes)

(***************************************************************************)
(* SpecSpell: one /spellcheck request on the cache of a fresh process.     *)
(***************************************************************************)
NextSpell ==
    \/ Arrive(1, SpellRequests, 1)
    \/ LookupMiss(1)
    \/ SpellCallRaises(1, SpellReplies)
    \/ SpellCallMalformed(1, SpellReplies)
    \/ SpellCallOk(1, SpellReplies)
    \/ CacheSet(1)

SpecSpell == Init /\ [][NextSpell]_vars

(***************************************************************************)
(* Spec: the workers serve /spellcheck and /correct requests concurrently. *)
(***************************************************************************)
Models == {<<"m">>, <<"m", "|", "|">>}

Texts == {<<"x">>, <<"|", "|", "x">>, AUTO_PREFIX \o <<"x">>}

Requests ==
    {[mode |-> md, model |-> m, text |-> t,
      max_chunk_chars |-> DEFAULT_MAX_CHUNK_CHARS] :
        md \in {"spellcheck", "correct"}, m \in Models, t \in Texts}

SmallSpellOutcomes ==
    { OkReply(<<FragText(ArrayText(<<ItemUpperA>>))>>),
      OkReply(<<FragText(ArrayText(<<JNum>>))>>),
      Outcome("none", 500, <<>>) }

SmallCorrectOutcomes ==
    { OkReply(<<FragText(<<TSPACE, TPROSE>>), FragText(<<TSPACE>>)>>),
      Outcome("timeout", 0, <<>>) }

SmallSpellReplies == Replies(SmallSpellOutcomes)

SmallCorrectReplies == Replies(SmallCorrectOutcomes)

TickSteps == {CACHE_TTL, CACHE_TTL + 1}

Next ==
    \/ \E r \in Reqs :
         \/ Arrive(r, Requests, MaxArrivals)
         \/ LookupMiss(r)
         \/ LookupHit(r)
         \/ CheckFresh(r)
         \/ CheckStale(r)
         \/ Pop(r)
         \/ SpellCallRaises(r, SmallSpellReplies)
         \/ SpellCallMalformed(r, SmallSpellReplies)
         \/ SpellCallOk(r, SmallSpellReplies)
         \/ CorrectCallRaises(r, SmallCorrectReplies)
         \/ CorrectCallOk(r, SmallCorrectReplies)
         \/ CacheSet(r)
    \/ Tick(TickSteps)

Spec == Init /\ [][Next]_vars

(***************************************************************************)
(* SpecCache: _cache_set and _cache_get called one after the other.        *)
(***************************************************************************)
CacheModels == {<<"m">>, <<"m", "|", "|">>}

CacheTexts == {<<"x">>, <<"|", "|", "x">>}

CacheVals == {JList(<<>>), JStr(<<TPROSE>>)}

CacheTickSteps == {30, 31}

SetOp(model, text, v) ==
    LET key == hash_key(model, text)
    IN  /\ lastOp.n < MaxOps
        /\ CACHE' = cache_set(CACHE, key, now, v)
        /\ lastOp' = [n |-> lastOp.n + 1, op |-> "set", key |-> key,
                      at |-> now, ret |-> None,
                      others |-> CachePop(CACHE, key)]
        /\ lastSet' = CachePut(lastSet, key, [ts |-> now, val |-> v])
        /\ UNCHANGED <<now, pc, req, locals, resp, arrivals, storedBy, hist>>

GetOp(model, text) ==
    LET key == hash_key(model, text)
        g == cache_get(CACHE, key, now)
    IN  /\ lastOp.n < MaxOps
        /\ CACHE' = g.cache
        /\ lastOp' = [n |-> lastOp.n + 1, op |-> "get", key |-> key,
                      at |-> now, ret |-> g.ret,
                      others |-> CachePop(CACHE, key)]
        /\ UNCHANGED <<now, pc, req, locals, resp, arrivals, storedBy, hist,
                       lastSet>>

NextCache ==
    \/ \E m \in CacheModels, t \in CacheTexts, v \in CacheVals : SetOp(m, t, v)
    \/ \E m \in CacheModels, t \in CacheTexts : GetOp(m, t)
    \/ Tick(CacheTickSteps)

SpecCache == Init /\ [][NextCache]_vars


(***************************************************************************)
(* The claims.                                                             *)
(***************************************************************************)
Computed(r) == resp[r].kind = "corrections" /\ hist[r].served = "computed"

Corrections(r) == resp[r].val[2]

\* C1: every position of every Correction a /spellcheck request computed is
\* a valid offset pair into the request's text: 0 <= start < end <= len(text).
C1_PositionsValid ==
    \A r \in Reqs :
      Computed(r) =>
        \A i \in 1..Len(Corrections(r)) :
          \A j \in 1..Len(Corrections(r)[i].positions) :
            LET p == Corrections(r)[i].positions[j]
            IN  0 <= p[1] /\ p[1] < p[2] /\ p[2] <= Len(req[r].text)

\* C2: in every Correction a /spellcheck request computed, suggestions is a
\* list of strings in which no value occurs twice.
C2_SuggestionsList ==
    \A r \in Reqs :
      Computed(r) =>
        \A i \in 1..Len(Corrections(r)) :
          LET sg == Corrections(r)[i].suggestions
          IN  /\ sg[1] = "list"
              /\ \A a \in 1..Len(sg[2]) : sg[2][a][1] = "str"
              /\ \A a, b \in 1..Len(sg[2]) : a # b => sg[2][a] # sg[2][b]

\* C3: when the transport to the model succeeds, /spellcheck does not end in
\* an error, whatever the reply: every error is an upstream failure.
C3_NoErrorOnMalformed ==
    \A r \in Reqs :
      pc[r] = "error" /\ req[r].mode = "spellcheck"
        => hist[r].errKind = "upstream"

\* history of SpecCache: the entries under the keys other than k
OtherKeys(cache, k) == [j \in DOMAIN cache \ {k} |-> cache[j]]

\* C4: a _cache_get made while now - createdAt <= 60 after the last
\* _cache_set on its key returns the value set; one made later returns
\* nothing and leaves no entry under the key; neither call changes the
\* entries under the other keys.
C4_CacheRoundTrip ==
    /\ lastOp.op = "get" /\ lastOp.key \in DOMAIN lastSet =>
         LET s == lastSet[lastOp.key]
         IN  IF lastOp.at - s.ts <= 60
             THEN lastOp.ret = s.val /\ lastOp.key \in DOMAIN CACHE
             ELSE lastOp.ret = None /\ lastOp.key \notin DOMAIN CACHE
    /\ lastOp.op = "get" /\ lastOp.key \notin DOMAIN lastSet =>
         lastOp.ret = None /\ lastOp.key \notin DOMAIN CACHE
    /\ lastOp.op = "set" =>
         /\ lastOp.key \in DOMAIN CACHE
         /\ CACHE[lastOp.key] = lastSet[lastOp.key]
    /\ lastOp.op # "none" => OtherKeys(CACHE, lastOp.key) = lastOp.others

\* C4's case: a get after the TTL has elapsed, with other entries in the cache
C4_Witness ==
    /\ lastOp.op = "get"
    /\ lastOp.key \in DOMAIN lastSet
    /\ lastOp.at - lastSet[lastOp.key].ts > 60
    /\ lastOp.ret = None
    /\ lastOp.others # <<>>
    /\ \E k \in DOMAIN lastSet :
         k # lastOp.key /\ lastOp.at - lastSet[k].ts = 60

\* C5: an entry is removed from the cache only when it has expired: the
\* eviction by a reader never removes an entry that a concurrent _cache_set
\* has just written.
C5_EvictionAtomic ==
    [][\A k \in DOMAIN CACHE :
         k \notin DOMAIN CACHE' => now - CACHE[k].ts > 60]_vars

Discarded(r, f) ==
    /\ pc[r] = "error"
    /\ resp[r] = [kind |-> "error", val |-> None]
    /\ hist[r].calls = f.at
    /\ ~hist[r].wrote
    /\ KeyOf(req[r]) \notin DOMAIN CACHE

ChunksMade(r) == req[r].mode = "spellcheck" /\ chunks[r] # <<>>

\* C7: every chunk of chunk_text is at most max_chars long.
C7_ChunksWithinBudget ==
    \A r \in Reqs :
      ChunksMade(r) =>
        \A i \in 1..Len(chunks[r]) :
          Len(chunks[r][i]) <= req[r].max_chunk_chars

\* C8: chunk_text of a text that is not empty returns no empty chunk.
C8_NoEmptyChunk ==
    \A r \in Reqs :
      ChunksMade(r) /\ req[r].text # <<>> =>
        \A i \in 1..Len(chunks[r]) : chunks[r][i] # <<>>

\* history: the sightings of the log whose lowercase word is key
RECURSIVE PositionsOf(_, _)
PositionsOf(log, key) ==
    IF log = <<>> THEN <<>>
    ELSE (IF LowerStr(Head(log).w) = key THEN Head(log).positions ELSE <<>>)
         \o PositionsOf(Tail(log), key)

FirstSightings(log) ==
    {i \in 1..Len(log) :
       \A j \in 1..(i - 1) : LowerStr(log[j].w) # LowerStr(log[i].w)}

\* C9: the result holds one Correction per distinct lowercase word sighted,
\* in the order of the first sightings, each with the casing of its first
\* sighting and the positions of all its sightings in order.
C9_OneCorrectionPerKey ==
    \A r \in Reqs :
      Computed(r) =>
        LET log == hist[r].log
            res == Corrections(r)
            firsts == FirstSightings(log)
        IN  /\ Len(res) = Cardinality(firsts)
            /\ \A f \in firsts :
                 LET n == Cardinality({g \in firsts : g <= f})
                 IN  /\ res[n].word = log[f].w
                     /\ res[n].positions =
                          PositionsOf(log, LowerStr(log[f].w))

\* C9's case: "b" sighted before "A", and "a" sighted again in the next chunk
C9_Witness ==
    \E r \in Reqs :
      /\ Computed(r)
      /\ Len(hist[r].log) = 3
      /\ hist[r].log[3].w = <<"a">>
      /\ Len(Corrections(r)) = 2
      /\ Corrections(r)[1].word = <<"b">>
      /\ Corrections(r)[2].word = <<"A">>
      /\ Len(Corrections(r)[2].positions) = 2

\* C10: a request answered from the cache is answered from an entry that a
\* request of the same mode, model and text stored.
C10_NamespaceIsolation ==
    \A r \in Reqs :
      hist[r].served = "cache" =>
        /\ hist[r].hitBy.mode = req[r].mode
        /\ ModelOf(hist[r].hitBy) = ModelOf(req[r])
        /\ hist[r].hitBy.text = req[r].text

=============================================================================
